---- MODULE Spec2Model ----
(***************************************************************************)
(* Model of the cinema-hint-server recommendation engine: the User model   *)
(* methods (addRecommendation, checkDailyLimit, addLikedMovie,             *)
(* addDislikedMovie), the quota gates (redisRateLimit,                     *)
(* rateLimitMiddleware), the attempt loop of POST /recommend               *)
(* (generateMovieRecommendation and the legacy inline loop of              *)
(* routes/movies.js), POST /feedback, the TMDB cache service over          *)
(* RedisManager with its batch operation, the retry interceptors of the    *)
(* two HTTP clients, the Movie collection behind searchMovieOnTMDB and     *)
(* saveMovieToDatabase, and GET /popular behind its response cache.        *)
(***************************************************************************)
EXTENDS Integers, Sequences, FiniteSets, TLC

VARIABLES
    now,        \* the last reading of the server clock (Date.now()), in ticks
    db,         \* the persisted User document: [hist, count, date]
    reqs,       \* per in-flight request: position, in-memory user document, locals
    redisHits,  \* value of the Redis key ratelimit:<userId>
    udoc,       \* a User document the model methods are called on directly
    lastCall,   \* the last direct model-method call: operation, argument, result
    everTrue,   \* movie ids for which addRecommendation has returned true on udoc
    prefs,      \* preferences.likedMovies / dislikedMovies of the udoc user
    redisState, \* the Redis connection: "up", "down" (not connected) or "failing"
    cache,      \* the Redis keys of the TMDB cache: key -> stored entry
    svc,        \* per caller of the HTTP clients: the call in progress and the one before
    movies,     \* the Movie collection (canonical store), in insertion order
    rslv,       \* per caller of searchMovieOnTMDB: position and locals
    rated,      \* per user: the tmdbIds in preferences.likedMovies / dislikedMovies
    popular,    \* the Redis key tmdb:popular:<genres> of the response cache
    userCache,  \* per user: the Redis key user:preferences:<userId>
    searchKeys  \* the Redis keys tmdb:search:<base64> that are stored

vars == <<now, db, reqs, redisHits, udoc, lastCall, everTrue,
          prefs, redisState, cache, svc, movies, rslv, rated, popular,
          userCache, searchKeys>>

----------------------------------------------------------------------------
(* Bounds of the model *)

\* movie ids the generative provider / metadata resolution can come up with
MaxMovie == 3
\* last clock reading the model explores
MaxTick == 1
\* largest stored daily count the User-method specification starts from
MaxCount == 6

(* Program constants *)

\* 5 recommendations per day
DailyLimit == 5
\* Keep only the 100 most recent recommendations
HistoryCap == 100
\* clock ticks per calendar day (the model's unit of time is half a day)
TicksPerDay == 2

Movies == 1..MaxMovie
\* rationale texts the provider can return
Reasons == {"because A", "because B"}
NoReason == ""
NoMovie == 0
Requests == {1, 2}

----------------------------------------------------------------------------
(* The User model *)

\* what new Date() / Date.now() can return next: the clock does not run backwards
ClockReadings == now..MaxTick

\* Date.prototype.toDateString(): the calendar date of an instant
DateString(t) == t \div TicksPerDay

\* paths of the User schema (plus the ones Mongoose adds)
UserDocFields ==
    {"_id", "googleId", "email", "name", "profilePicture", "preferences",
     "dailyRecommendations", "recommendationHistory", "createdAt", "updatedAt"}

HistIds(hist) == {hist[i].movieId : i \in DOMAIN hist}

\* recommendationHistory.some(r => r.movieId === id)
IsDuplicate_NoCheck(hist, id) == FALSE
IsDuplicate(hist, id) == \E i \in DOMAIN hist : hist[i].movieId = id

Last(s) == s[Len(s)]
Front(s) == SubSeq(s, 1, Len(s) - 1)

IsSortedDesc(s) == \A i \in 1..(Len(s) - 1) : s[i].ts >= s[i + 1].ts

\* e placed into a descending sequence s, after the entries that compare equal
InsertDesc(s, e) ==
    LET p == Cardinality({i \in DOMAIN s : s[i].ts >= e.ts})
    IN SubSeq(s, 1, p) \o <<e>> \o SubSeq(s, p + 1, Len(s))

\* Array.prototype.sort((a, b) => b.timestamp - a.timestamp): stable, newest first
\* (a stable sort leaves a sorted array as it is)
RECURSIVE SortByTimestampDesc(_)
SortByTimestampDesc(s) ==
    IF IsSortedDesc(s) THEN s
    ELSE InsertDesc(SortByTimestampDesc(Front(s)), Last(s))

\* slice(0, 100) when the length exceeds 100
Truncate_KeepOldest(s) ==
    IF Len(s) > HistoryCap THEN SubSeq(s, Len(s) - HistoryCap + 1, Len(s)) ELSE s
Truncate(s) == IF Len(s) > HistoryCap THEN SubSeq(s, 1, HistoryCap) ELSE s

\* userSchema.methods.addRecommendation; t is Date.now() of the timestamp default
AddRecommendation(doc, rec, t) ==
    IF IsDuplicate(doc.hist, rec.movieId)
    THEN [doc |-> doc, ret |-> FALSE]
    ELSE LET pushed == Append(doc.hist,
                         [movieId |-> rec.movieId, accepted |-> rec.accepted, ts |-> t])
         IN [doc |-> [doc EXCEPT !.hist = Truncate(SortByTimestampDesc(pushed))],
             ret |-> TRUE]

\* the date test of checkDailyLimit
DateChanged_Rolling24h(today, userDate) == today - userDate >= TicksPerDay
DateChanged(today, userDate) == DateString(today) # DateString(userDate)

\* userSchema.methods.checkDailyLimit; t is new Date()
CheckDailyLimit(doc, t) ==
    LET rolled == IF DateChanged(t, doc.date)
                  THEN [doc EXCEPT !.count = 0, !.date = t]
                  ELSE doc
    IN [doc |-> rolled, ret |-> rolled.count < DailyLimit]

----------------------------------------------------------------------------
(* The preference store: likedMovies / dislikedMovies, a Map from genre     *)
(* name to an array of {tmdbId, title, genres}                              *)

\* movie ids feedback is given on
MaxPrefMovie == 2
PrefMovies == 1..MaxPrefMovie

\* a genre of a request body: a TMDB genre id (name = "") or a genre name
GenreId(n) == [id |-> n, name |-> ""]
GenreStr(x) == [id |-> 0, name |-> x]

\* genreMap of addLikedMovie / addDislikedMovie
GenreMap ==
    (28 :> "action") @@ (12 :> "adventure") @@ (16 :> "animation")
      @@ (35 :> "comedy") @@ (80 :> "crime") @@ (99 :> "documentary")
      @@ (18 :> "drama") @@ (10751 :> "family") @@ (14 :> "fantasy")
      @@ (36 :> "history") @@ (27 :> "horror") @@ (10402 :> "music")
      @@ (9648 :> "mystery") @@ (10749 :> "romance") @@ (878 :> "scifi")
      @@ (10770 :> "tvmovie") @@ (53 :> "thriller") @@ (10752 :> "war")
      @@ (37 :> "western")

\* String.prototype.toLowerCase left out: the name is stored as it came
ToLowerCase_AsGiven(x) == x

\* String.prototype.toLowerCase on the names the model uses
ToLowerCase(x) ==
    CASE x = "Action" -> "action"
      [] x = "Drama" -> "drama"
      [] OTHER -> x

\* the map callback with an unrecognized id kept under a name of its own
GenreName_KeepUnknown(g) ==
    IF g.name # "" THEN ToLowerCase(g.name)
    ELSE IF g.id \in DOMAIN GenreMap THEN GenreMap[g.id] ELSE "unknown"

\* the map callback: a name is lowercased, an id is looked up, "" stands for null
GenreName(g) ==
    IF g.name # "" THEN ToLowerCase(g.name)
    ELSE IF g.id \in DOMAIN GenreMap THEN GenreMap[g.id] ELSE ""

\* (movie.genres || []).map(...).filter(Boolean)
GenreNames(genres) ==
    SelectSeq([i \in DOMAIN genres |-> GenreName(genres[i])], LAMBDA x : x # "")

\* genre lists of the request bodies the model explores
RawGenreLists ==
    {<<>>, <<GenreId(28)>>, <<GenreId(28), GenreStr("Drama")>>,
     <<GenreStr("Action"), GenreId(28), GenreId(999)>>}

\* a Map without keys
EmptySide == [g \in {} |-> <<>>]
NoPrefs == [liked |-> EmptySide, disliked |-> EmptySide]

\* the movie ids in the buckets of one side
PrefIds(side) ==
    UNION {{side[g][i].tmdbId : i \in DOMAIN side[g]} : g \in DOMAIN side}

\* movies.filter(m => m.tmdbId !== movie.tmdbId) on every bucket; an emptied
\* bucket is deleted
RemoveMovie_KeepAll(side, id) == side
RemoveMovie(side, id) ==
    LET filtered(g) == SelectSeq(side[g], LAMBDA e : e.tmdbId # id)
        kept == {g \in DOMAIN side : Len(filtered(g)) # 0}
    IN [g \in kept |-> filtered(g)]

\* genreMovies.findIndex(m => m.tmdbId === movie.tmdbId), 0 for -1
FindIndex_NotFound(bucket, id) == 0
FindIndex(bucket, id) ==
    IF \E i \in DOMAIN bucket : bucket[i].tmdbId = id
    THEN CHOOSE i \in DOMAIN bucket :
            /\ bucket[i].tmdbId = id
            /\ \A j \in 1..(i - 1) : bucket[j].tmdbId # id
    ELSE 0

\* the body of genreNames.forEach: create the bucket, then update or push
PutMovie(side, g, data) ==
    LET bucket == IF g \in DOMAIN side THEN side[g] ELSE <<>>
        idx == FindIndex(bucket, data.tmdbId)
        updated == IF idx > 0 THEN [bucket EXCEPT ![idx] = data]
                   ELSE Append(bucket, data)
    IN [h \in DOMAIN side \cup {g} |-> IF h = g THEN updated ELSE side[h]]

RECURSIVE PutAll(_, _, _)
PutAll(side, names, data) ==
    IF names = <<>> THEN side
    ELSE PutAll(PutMovie(side, Head(names), data), Tail(names), data)

\* movieData of addLikedMovie / addDislikedMovie
MovieData(movie) ==
    [tmdbId |-> movie.tmdbId, title |-> movie.title,
     genres |-> GenreNames(movie.genres)]

\* userSchema.methods.addLikedMovie, up to its save
AddLikedMovie(p, movie) ==
    [liked |-> PutAll(p.liked, GenreNames(movie.genres), MovieData(movie)),
     disliked |-> RemoveMovie(p.disliked, movie.tmdbId)]

\* userSchema.methods.addDislikedMovie, up to its save
AddDislikedMovie(p, movie) ==
    [liked |-> RemoveMovie(p.liked, movie.tmdbId),
     disliked |-> PutAll(p.disliked, GenreNames(movie.genres), MovieData(movie))]

\* title of the movie with id m
Title(m) == m

----------------------------------------------------------------------------
(* The TMDB cache service and the HTTP clients *)

Callers == {1, 2}

\* arguments (movie id, query, genres, window) the service is called with
MaxCacheArg == 1
\* last clock reading of the cache specifications
MaxCacheTick == 2
\* this.maxRetries of TMDBCacheService
MaxRetries == 3
\* retry: 3 of tmdbRequest
SharedRetry == 3

CacheArgs == 1..MaxCacheArg
CachedOps == {"searchMovies", "getMovieDetails", "getPopularMovies", "getTrendingMovies"}
Ops == CachedOps \cup {"tmdbRequest"}

\* response.data of a successful provider call
Payloads == {"p1", "p2"}
NoPayload == ""

\* failures of a provider call: a response with status >= 500, a response with
\* status 4xx, no response (network error, connection reset), a timeout
Failures == {"5xx", "4xx", "network", "timeout"}
NoFailure == "none"

\* redisManager.constructor.keys.tmdbSearch / tmdbMovieCache / tmdbPopular and
\* `tmdb:trending:${timeWindow}`: one key per operation and argument
CacheKey(op, arg) == <<op, arg>>
\* the tmdbIds a batch asks for
BatchIds == {1, 2}
Keys == {CacheKey(op, arg) : op \in CachedOps, arg \in CacheArgs}
           \cup {CacheKey("getMovieDetails", id) : id \in BatchIds}

\* RedisManager.TTL, in seconds (trending: 2 * 60 * 60)
Ttl(op) ==
    CASE op = "searchMovies" -> 6 * 60 * 60
      [] op = "getMovieDetails" -> 24 * 60 * 60
      [] op = "getPopularMovies" -> 12 * 60 * 60
      [] OTHER -> 2 * 60 * 60

SecondsPerTick == (24 * 60 * 60) \div TicksPerDay

NoEntry == [payload |-> NoPayload, setAt |-> 0, ttl |-> 0]
EmptyCache == [k \in Keys |-> NoEntry]
\* every key stored at time 0
WarmCache == [k \in Keys |-> [payload |-> "p1", setAt |-> 0, ttl |-> Ttl(k[1])]]

\* SETEX: Redis drops the key once its ttl has passed
Expired_Always(entry, t) == TRUE
Expired(entry, t) == (t - entry.setAt) * SecondsPerTick >= entry.ttl

\* RedisManager.get: null when not connected, when the key is absent and when
\* the command throws; err tells whether an exception leaves the method
RedisGet_NoCatch(state, store, key, t) ==
    [val |-> NoPayload, err |-> state = "failing"]
RedisGet(state, store, key, t) ==
    IF state # "up" THEN [val |-> NoPayload, err |-> FALSE]
    ELSE IF store[key] = NoEntry \/ Expired(store[key], t)
         THEN [val |-> NoPayload, err |-> FALSE]
         ELSE [val |-> store[key].payload, err |-> FALSE]

\* RedisManager.set with a ttl: false when not connected or when setEx throws
RedisSet(state, store, key, value, ttl, t) ==
    IF state # "up" THEN [store |-> store, ok |-> FALSE, err |-> FALSE]
    ELSE [store |-> [store EXCEPT ![key] = [payload |-> value, setAt |-> t, ttl |-> ttl]],
          ok |-> TRUE, err |-> FALSE]

\* RedisManager.del
RedisDel(state, store, key) ==
    IF state # "up" THEN store ELSE [store EXCEPT ![key] = NoEntry]

\* the retry test of the response interceptors; retry is the number of retries
\* already made.  TMDBCacheService: config.retry < maxRetries and
\* error.response?.status >= 500.  utils/axios: no response, or a listed
\* error code, or status >= 500, and currentRetryAttempt < config.retry
ShouldRetry_AnyFailure(op, failure, retry) == retry < MaxRetries
ShouldRetry(op, failure, retry) ==
    IF op \in CachedOps
    THEN retry < MaxRetries /\ failure = "5xx"
    ELSE failure \in {"network", "timeout", "5xx"} /\ retry < SharedRetry

IdleCall ==
    [pc |-> "idle", op |-> "tmdbRequest", arg |-> 0,
     retry |-> 0, http |-> 0, last |-> NoFailure,
     outcome |-> "none", payload |-> NoPayload, got |-> NoPayload, err |-> NoFailure,
     t0 |-> 0, steady |-> FALSE, down |-> FALSE,
     hasPrev |-> FALSE, prevOutcome |-> "none",
     prevPayload |-> NoPayload, prevHttp |-> 0, prevT0 |-> 0, prevSteady |-> FALSE]

\* the catch of the service method rethrows; nothing is returned or stored
OnProviderFailure_Fabricate(q, failure) ==
    [q EXCEPT !.pc = "done", !.outcome = "fetched", !.payload = "p1", !.last = failure]
OnProviderFailure(q, failure) ==
    [q EXCEPT !.pc = "done", !.outcome = "failed", !.err = failure, !.last = failure]

----------------------------------------------------------------------------
(* The canonical movie store: models/Movie.js, saveMovieToDatabase *)

\* tmdbIds that are asked for
MaxStoreMovie == 2
StoreIds == 1..MaxStoreMovie

\* concurrent callers of searchMovieOnTMDB
Resolvers == {1, 2}

\* a Movie document: its tmdbId and the metadata it was built from
MovieDoc(id, data) == [tmdbId |-> id, data |-> data]
NoMovieDoc == [tmdbId |-> 0, data |-> NoPayload]

StoredIds(coll) == {coll[i].tmdbId : i \in 1..Len(coll)}

\* Movie.findOne({ tmdbId }): the first document with that id, or null
FindOne_AlwaysMiss(coll, id) == NoMovieDoc
FindOne(coll, id) ==
    IF id \in StoredIds(coll)
    THEN coll[CHOOSE i \in 1..Len(coll) :
                 /\ coll[i].tmdbId = id
                 /\ \A j \in 1..(i - 1) : coll[j].tmdbId # id]
    ELSE NoMovieDoc

\* new Movie(movieData).save(): the index of `tmdbId: { unique: true }`
\* rejects a second document with a stored id
InsertMovie_NoUniqueIndex(coll, doc) == [coll |-> Append(coll, doc), ok |-> TRUE]
InsertMovie(coll, doc) ==
    IF doc.tmdbId \in StoredIds(coll)
    THEN [coll |-> coll, ok |-> FALSE]
    ELSE [coll |-> Append(coll, doc), ok |-> TRUE]

\* a caller of searchMovieOnTMDB(null, null, tmdbId) that has not started
IdleResolve ==
    [pc |-> "idle", id |-> 0, inStore |-> FALSE, http |-> 0,
     fetched |-> NoPayload, saved |-> "none", result |-> NoPayload]

----------------------------------------------------------------------------
(* The response cache of GET /popular/:genres? *)

Users == {1, 2}

\* the value under tmdb:popular:<genres>: the tmdbIds of a cached response
NoResponse == [list |-> {}, set |-> FALSE, setAt |-> 0, ttl |-> 0]

----------------------------------------------------------------------------
(* User documents the model starts from *)

Entry(id, t) == [movieId |-> id, accepted |-> "unset", ts |-> t]

\* one earlier recommendation
ShortHist == <<Entry(1, -1)>>

\* a history at the bound; its oldest entry is movie 1
FullHist == [i \in 1..HistoryCap |->
                Entry(IF i = HistoryCap THEN 1 ELSE 1000 + i, 0 - i)]

InitHists == {<<>>, ShortHist, FullHist}

\* stored counts the route specifications start from; a user without history
\* has never been counted
InitCounts(hist) == IF hist = <<>> THEN {0} ELSE {0, DailyLimit - 1, DailyLimit}

InitDbs == {[hist |-> h, count |-> c, date |-> d] :
               h \in InitHists, c \in 0..MaxCount, d \in {0 - 1, 0}}

----------------------------------------------------------------------------
(* POST /recommend.  Route "cur" is the handler of healthcheck.js:336 with  *)
(* generateMovieRecommendation; route "legacy" is the handler of           *)
(* routes/movies.js:233 with its inline loop.                              *)

\* maxAttempts of generateMovieRecommendation; the legacy loop has no alternative mode
MaxAttempts_OneMore(route, alt) == IF route = "cur" /\ alt THEN 6 ELSE 4
MaxAttempts(route, alt) == IF route = "cur" /\ alt THEN 5 ELSE 3

\* redisRateLimit(5): skipped when req.user has no userId
RedisRateLimit(userFields, hits) ==
    IF "userId" \notin userFields
    THEN [hits |-> hits, blocked |-> FALSE]
    ELSE [hits |-> hits + 1, blocked |-> hits + 1 > DailyLimit]

\* rateLimitMiddleware: 429 unless user.checkDailyLimit()
RateLimitMiddleware_Open(doc, t) == [doc |-> CheckDailyLimit(doc, t).doc, blocked |-> FALSE]
RateLimitMiddleware(doc, t) ==
    LET chk == CheckDailyLimit(doc, t)
    IN [doc |-> chk.doc, blocked |-> ~chk.ret]

IdleReq ==
    [pc |-> "idle", route |-> "cur", alt |-> FALSE,
     doc |-> [hist |-> <<>>, count |-> 0, date |-> 0],
     attempts |-> 0, calls |-> 0, outcome |-> "none",
     reason |-> NoReason, cand |-> NoMovie, resp |-> [movie |-> NoMovie, reason |-> NoReason],
     start |-> [hist |-> <<>>, count |-> 0, date |-> 0],
     atCeiling |-> FALSE, first |-> NoMovie, saveFailed |-> FALSE, onlyDups |-> TRUE,
     temps |-> <<>>]

\* authMiddleware (User.findById), the quota gate of the route, and the handler
\* up to its first provider call
Begin(r, route, alt, t) ==
    /\ reqs[r].pc = "idle"
    /\ t \in ClockReadings
    /\ now' = t
    /\ LET redis == RedisRateLimit(UserDocFields, redisHits)
           legacy == RateLimitMiddleware(db, t)
           blocked == IF route = "cur" THEN redis.blocked ELSE legacy.blocked
           doc == IF route = "cur" THEN db ELSE legacy.doc
           q == [IdleReq EXCEPT
                   !.route = route, !.alt = (alt /\ route = "cur"), !.doc = doc, !.start = db,
                   !.atCeiling = (DateString(db.date) = DateString(t)
                                    /\ db.count >= DailyLimit)]
       IN /\ redisHits' = IF route = "cur" THEN redis.hits ELSE redisHits
          /\ reqs' = [reqs EXCEPT ![r] =
                        IF blocked
                        THEN [q EXCEPT !.pc = "done", !.outcome = "quota"]
                        ELSE [q EXCEPT !.pc = "generate"]]
    /\ UNCHANGED <<searchKeys, userCache, movies, rslv, rated, popular, db, udoc, lastCall, everTrue, prefs, redisState, cache, svc>>

\* attempts++ and the loop test
AttemptStep_Twice(n) == n + 2
AttemptStep(n) == n + 1

FailAttempt_Surface(q) ==
    [q EXCEPT !.attempts = AttemptStep(q.attempts), !.pc = "done", !.outcome = "error"]
FailAttempt(q) ==
    LET a == AttemptStep(q.attempts)
    IN IF a < MaxAttempts(q.route, q.alt)
       THEN [q EXCEPT !.attempts = a, !.pc = "generate"]
       ELSE [q EXCEPT !.attempts = a, !.pc = "done", !.outcome = "notfound"]

\* an exception inside the loop: caught per attempt, or by the route's catch (500)
Thrown(q) ==
    IF q.route = "cur" THEN FailAttempt(q)
    ELSE [q EXCEPT !.pc = "done", !.outcome = "error"]

\* temperature: 0.7 + (attempts * 0.15), legacy 0.7 + (attempts * 0.1), in hundredths
Temperature_Flat(q) == 70
Temperature(q) == 70 + q.attempts * (IF q.route = "cur" THEN 15 ELSE 10)

Replies ==
    {[kind |-> k, reason |-> NoReason] : k \in {"error", "unparsable", "missing"}}
      \cup {[kind |-> "valid", reason |-> x] : x \in Reasons}

\* openai.chat.completions.create, JSON.parse and the required-fields test
Generate(r, reply) ==
    /\ reqs[r].pc = "generate"
    /\ LET q == [reqs[r] EXCEPT !.calls = @ + 1,
                                 !.temps = Append(@, Temperature(reqs[r]))]
       IN reqs' = [reqs EXCEPT ![r] =
             CASE reply.kind = "error" -> Thrown([q EXCEPT !.onlyDups = FALSE])
               [] reply.kind \in {"unparsable", "missing"} ->
                    FailAttempt([q EXCEPT !.onlyDups = FALSE])
               [] OTHER -> [q EXCEPT !.pc = "resolve", !.reason = reply.reason]]
    /\ UNCHANGED <<searchKeys, userCache, movies, rslv, rated, popular, now, db, redisHits, udoc, lastCall, everTrue, prefs, redisState, cache, svc>>

\* user.recommendationHistory.some(rec => rec.movieId === movieDetails.tmdbId)
AlreadyRecommended(doc, m) == IsDuplicate(doc.hist, m)

\* searchMovieOnTMDB's result, the duplicate test, addRecommendation and count += 1
Resolve(r, m, t) ==
    /\ reqs[r].pc = "resolve"
    /\ t \in ClockReadings
    /\ now' = t
    /\ LET q == reqs[r]
           add == AddRecommendation(q.doc, [movieId |-> m, accepted |-> "unset"], t)
       IN reqs' = [reqs EXCEPT ![r] =
             IF m = NoMovie \/ AlreadyRecommended(q.doc, m) \/ ~add.ret
             THEN FailAttempt([q EXCEPT !.onlyDups =
                                  @ /\ m \in HistIds(q.start.hist)])
             ELSE [q EXCEPT !.pc = "save", !.cand = m, !.onlyDups = FALSE,
                            !.doc = [add.doc EXCEPT !.count = @ + 1],
                            !.first = IF q.attempts = 0 /\ ~q.saveFailed
                                      THEN m ELSE @]]
    /\ UNCHANGED <<searchKeys, userCache, movies, rslv, rated, popular, db, redisHits, udoc, lastCall, everTrue, prefs, redisState, cache, svc>>

\* the paths user.save() writes: the history, the count, and the date when rolled
Persist_Nothing(stored, q) == stored
Persist(stored, q) ==
    [hist |-> q.doc.hist, count |-> q.doc.count,
     date |-> IF q.doc.date # q.start.date THEN q.doc.date ELSE stored.date]

\* { ...movieDetails, reason: aiResponse.reason }
FinalRecommendation_NoReason(q) == [movie |-> q.cand, reason |-> NoReason]
FinalRecommendation(q) == [movie |-> q.cand, reason |-> q.reason]

\* await user.save() and the response
Save(r, ok) ==
    /\ reqs[r].pc = "save"
    /\ LET q == reqs[r]
       IN IF ok
          THEN /\ db' = Persist(db, q)
               /\ reqs' = [reqs EXCEPT ![r] =
                     [q EXCEPT !.pc = "done", !.outcome = "ok",
                               !.resp = FinalRecommendation(q)]]
          ELSE /\ db' = db
               /\ reqs' = [reqs EXCEPT ![r] =
                     Thrown([q EXCEPT !.saveFailed = TRUE])]
    /\ UNCHANGED <<searchKeys, userCache, movies, rslv, rated, popular, now, redisHits, udoc, lastCall, everTrue, prefs, redisState, cache, svc>>

NoDoc == [hist |-> <<>>, count |-> 0, date |-> 0]

NoCall == [op |-> "none", id |-> NoMovie, t |-> 0, ret |-> FALSE,
           before |-> NoDoc, wasEver |-> FALSE]

Init ==
    /\ now = 0
    /\ db \in {d \in InitDbs : d.count \in InitCounts(d.hist)}
    /\ reqs = [r \in Requests |-> IdleReq]
    /\ redisHits = 0
    /\ udoc = NoDoc
    /\ lastCall = NoCall
    /\ everTrue = {}
    /\ prefs = NoPrefs
    /\ redisState = "up"
    /\ cache = EmptyCache
    /\ svc = [c \in Callers |-> IdleCall]
    /\ movies = <<>>
    /\ rslv = [c \in Resolvers |-> IdleResolve]
    /\ rated = [u \in Users |-> {}]
    /\ popular = NoResponse
    /\ userCache = [u \in Users |-> NoResponse]
    /\ searchKeys = {}

\* one request at a time
Next ==
    \/ \E route \in {"cur", "legacy"}, alt \in BOOLEAN, t \in 0..MaxTick :
          Begin(1, route, alt, t)
    \/ \E reply \in Replies : Generate(1, reply)
    \/ \E m \in Movies \cup {NoMovie}, t \in 0..MaxTick : Resolve(1, m, t)
    \/ \E ok \in BOOLEAN : Save(1, ok)

Spec == Init /\ [][Next]_vars

----------------------------------------------------------------------------
(* Two requests of the same user in flight together *)

ConcReplies == {[kind |-> "unparsable", reason |-> NoReason],
                [kind |-> "valid", reason |-> "because A"]}

InitConc ==
    /\ now = 0
    /\ db \in {d \in InitDbs : d.hist # FullHist /\ d.date = 0
                                 /\ d.count \in InitCounts(d.hist)}
    /\ reqs = [r \in Requests |-> IdleReq]
    /\ redisHits = 0
    /\ udoc = NoDoc
    /\ lastCall = NoCall
    /\ everTrue = {}
    /\ prefs = NoPrefs
    /\ redisState = "up"
    /\ cache = EmptyCache
    /\ svc = [c \in Callers |-> IdleCall]
    /\ movies = <<>>
    /\ rslv = [c \in Resolvers |-> IdleResolve]
    /\ rated = [u \in Users |-> {}]
    /\ popular = NoResponse
    /\ userCache = [u \in Users |-> NoResponse]
    /\ searchKeys = {}

NextConc ==
    \/ \E r \in Requests, route \in {"cur", "legacy"} : Begin(r, route, FALSE, now)
    \/ \E r \in Requests, reply \in ConcReplies : Generate(r, reply)
    \/ \E r \in Requests, m \in Movies \cup {NoMovie} : Resolve(r, m, now)
    \/ \E r \in Requests, ok \in BOOLEAN : Save(r, ok)

SpecConc == InitConc /\ [][NextConc]_vars

----------------------------------------------------------------------------
(* The User model's methods called directly, in any order *)

\* user.addRecommendation({movieId: m, ...})
UserAddRecommendation(m, t) ==
    LET add == AddRecommendation(udoc, [movieId |-> m, accepted |-> "unset"], t)
    IN /\ t \in ClockReadings
       /\ now' = t
       /\ udoc' = add.doc
       /\ lastCall' = [op |-> "add", id |-> m, t |-> t, ret |-> add.ret,
                       before |-> udoc, wasEver |-> m \in everTrue]
       /\ everTrue' = IF add.ret THEN everTrue \cup {m} ELSE everTrue
       /\ UNCHANGED <<searchKeys, userCache, movies, rslv, rated, popular, db, reqs, redisHits, prefs, redisState, cache, svc>>

\* user.checkDailyLimit()
UserCheckDailyLimit(t) ==
    LET chk == CheckDailyLimit(udoc, t)
    IN /\ t \in ClockReadings
       /\ now' = t
       /\ udoc' = chk.doc
       /\ lastCall' = [op |-> "check", id |-> NoMovie, t |-> t, ret |-> chk.ret,
                       before |-> udoc, wasEver |-> FALSE]
       /\ UNCHANGED <<searchKeys, userCache, movies, rslv, rated, popular, db, reqs, redisHits, everTrue, prefs, redisState, cache, svc>>

\* the entries a document starts with were inserted by earlier calls
InitUser ==
    /\ now = 0
    /\ udoc \in InitDbs
    /\ everTrue = HistIds(udoc.hist)
    /\ lastCall = NoCall
    /\ db = NoDoc
    /\ reqs = [r \in Requests |-> IdleReq]
    /\ redisHits = 0
    /\ prefs = NoPrefs
    /\ redisState = "up"
    /\ cache = EmptyCache
    /\ svc = [c \in Callers |-> IdleCall]
    /\ movies = <<>>
    /\ rslv = [c \in Resolvers |-> IdleResolve]
    /\ rated = [u \in Users |-> {}]
    /\ popular = NoResponse
    /\ userCache = [u \in Users |-> NoResponse]
    /\ searchKeys = {}

NextUser ==
    \/ \E m \in Movies, t \in 0..MaxTick : UserAddRecommendation(m, t)
    \/ \E t \in 0..MaxTick : UserCheckDailyLimit(t)

SpecUser == InitUser /\ [][NextUser]_vars

\* every awaited call (provider, metadata resolution, save) returns or throws;
\* the loop never reads the length of the history, so the documents at the
\* 100-entry bound are left to Spec
InitLive == Init /\ db.hist # FullHist

SpecLive ==
    /\ InitLive /\ [][Next]_vars
    /\ WF_vars(\E reply \in Replies : Generate(1, reply))
    /\ WF_vars(\E m \in Movies \cup {NoMovie}, t \in 0..MaxTick : Resolve(1, m, t))
    /\ WF_vars(\E ok \in BOOLEAN : Save(1, ok))

----------------------------------------------------------------------------
(* addLikedMovie / addDislikedMovie called directly, in any order *)

\* user.addLikedMovie({tmdbId: m, title, genres}); the document is the one in memory
UserAddLikedMovie(m, genres) ==
    /\ prefs' = AddLikedMovie(prefs, [tmdbId |-> m, title |-> Title(m), genres |-> genres])
    /\ lastCall' = [op |-> "like", id |-> m, genres |-> genres,
                    wasOpposite |-> m \in PrefIds(prefs.disliked),
                    wasSame |-> m \in PrefIds(prefs.liked)]
    /\ UNCHANGED <<searchKeys, userCache, movies, rslv, rated, popular, now, db, reqs, redisHits, udoc, everTrue, redisState, cache, svc>>

\* user.addDislikedMovie({tmdbId: m, title, genres})
UserAddDislikedMovie(m, genres) ==
    /\ prefs' = AddDislikedMovie(prefs, [tmdbId |-> m, title |-> Title(m), genres |-> genres])
    /\ lastCall' = [op |-> "dislike", id |-> m, genres |-> genres,
                    wasOpposite |-> m \in PrefIds(prefs.liked),
                    wasSame |-> m \in PrefIds(prefs.disliked)]
    /\ UNCHANGED <<searchKeys, userCache, movies, rslv, rated, popular, now, db, reqs, redisHits, udoc, everTrue, redisState, cache, svc>>

InitPrefs ==
    /\ now = 0
    /\ db = NoDoc
    /\ reqs = [r \in Requests |-> IdleReq]
    /\ redisHits = 0
    /\ udoc = NoDoc
    /\ lastCall = NoCall
    /\ everTrue = {}
    /\ prefs = NoPrefs
    /\ redisState = "up"
    /\ cache = EmptyCache
    /\ svc = [c \in Callers |-> IdleCall]
    /\ movies = <<>>
    /\ rslv = [c \in Resolvers |-> IdleResolve]
    /\ rated = [u \in Users |-> {}]
    /\ popular = NoResponse
    /\ userCache = [u \in Users |-> NoResponse]
    /\ searchKeys = {}

NextPrefs ==
    \/ \E m \in PrefMovies, g \in RawGenreLists : UserAddLikedMovie(m, g)
    \/ \E m \in PrefMovies, g \in RawGenreLists : UserAddDislikedMovie(m, g)

SpecPrefs == InitPrefs /\ [][NextPrefs]_vars

----------------------------------------------------------------------------
(* POST /feedback; udoc and prefs are the stored document of the user *)

\* what Movie.findOne / searchMovieOnTMDB come up with for the movie
FoundMovies == {[found |-> FALSE, genres |-> <<>>],
                [found |-> TRUE, genres |-> <<GenreStr("Action")>>]}

\* recommendationHistory.find(rec => rec.movieId === movieId), then the update
\* of its accepted field or the push of a new entry
FeedbackHistory(hist, m, accepted, t) ==
    IF IsDuplicate(hist, m)
    THEN LET i == CHOOSE i \in DOMAIN hist :
                     /\ hist[i].movieId = m
                     /\ \A j \in 1..(i - 1) : hist[j].movieId # m
         IN [hist EXCEPT ![i].accepted = accepted]
    ELSE Append(hist, [movieId |-> m, accepted |-> accepted, ts |-> t])

\* the handler; saves is the number of user.save() calls that succeed before
\* one rejects (the first is the one of addLikedMovie / addDislikedMovie)
\* the user document after the history update of the handler and user.save()
FeedbackDoc_Counted(doc, m, accepted, t) ==
    [doc EXCEPT !.hist = FeedbackHistory(@, m, accepted, t), !.count = @ + 1]
FeedbackDoc(doc, m, accepted, t) ==
    [doc EXCEPT !.hist = FeedbackHistory(@, m, accepted, t)]

Feedback(route, m, accepted, genres, movieInDb, saves, t) ==
    LET movieData == [tmdbId |-> m, title |-> Title(m),
                      genres |-> IF route = "cur" /\ movieInDb.found
                                 THEN movieInDb.genres ELSE genres]
        p1 == IF accepted THEN AddLikedMovie(prefs, movieData)
              ELSE AddDislikedMovie(prefs, movieData)
        flag == IF accepted THEN "true" ELSE "false"
    IN /\ t \in ClockReadings
       /\ now' = t
       /\ prefs' = IF saves >= 1 THEN p1 ELSE prefs
       /\ udoc' = IF route = "cur" /\ saves >= 2
                  THEN FeedbackDoc(udoc, m, flag, t)
                  ELSE udoc
       /\ UNCHANGED <<searchKeys, userCache, movies, rslv, rated, popular, db, reqs, redisHits, lastCall, everTrue,
                      redisState, cache, svc>>

\* user.addRecommendation({movieId: m, ...}) on the stored document, then save
RecordRecommendation(m, t) ==
    /\ t \in ClockReadings
    /\ now' = t
    /\ udoc' = AddRecommendation(udoc, [movieId |-> m, accepted |-> "unset"], t).doc
    /\ UNCHANGED <<searchKeys, userCache, movies, rslv, rated, popular, db, reqs, redisHits, lastCall, everTrue,
                   prefs, redisState, cache, svc>>

InitFeedback ==
    /\ InitUser
    /\ udoc.count = 0 /\ udoc.date = 0

NextFeedback ==
    \/ \E route \in {"cur", "legacy"}, m \in PrefMovies, accepted \in BOOLEAN,
          movieInDb \in FoundMovies, saves \in 0..2 :
          Feedback(route, m, accepted, <<>>, movieInDb, saves, now)
    \/ \E m \in PrefMovies : RecordRecommendation(m, now)

SpecFeedback == InitFeedback /\ [][NextFeedback]_vars

\* feedback requests of a user whose quota is unused, nearly used or used up,
\* of today or of the day before, and whose history is still empty
InitQuota ==
    /\ InitUser
    /\ udoc.count \in {0, DailyLimit - 1, DailyLimit}
    /\ udoc.hist = <<>>

SpecQuota == InitQuota /\ [][NextFeedback]_vars

----------------------------------------------------------------------------
(* Calls of the TMDB cache service (searchMovies, getMovieDetails,          *)
(* getPopularMovies, getTrendingMovies) and of tmdbRequest                  *)

Responses ==
    {[failure |-> f, data |-> NoPayload] : f \in Failures}
      \cup {[failure |-> NoFailure, data |-> d] : d \in Payloads}

\* the call up to its first await on the provider: the cache read and, on a
\* miss, the request.  steady: the store has been up, and the key not
\* invalidated, since the call began; down: the store has not been up since;
\* prev...: the call made just before with the same arguments
StartCall(c, op, arg, t) ==
    /\ svc[c].pc \in {"idle", "done"}
    /\ t \in now..MaxCacheTick
    /\ now' = t
    /\ LET old == svc[c]
           fresh == [IdleCall EXCEPT
                       !.op = op, !.arg = arg, !.t0 = t,
                       !.steady = (redisState = "up"), !.down = (redisState # "up")]
           q == IF old.pc = "done" /\ old.op = op /\ old.arg = arg
                THEN [fresh EXCEPT
                        !.hasPrev = TRUE, !.prevOutcome = old.outcome,
                        !.prevPayload = old.payload, !.prevHttp = old.http,
                        !.prevT0 = old.t0, !.prevSteady = old.steady]
                ELSE fresh
           read == IF op \in CachedOps
                   THEN RedisGet(redisState, cache, CacheKey(op, arg), t)
                   ELSE [val |-> NoPayload, err |-> FALSE]
       IN svc' = [svc EXCEPT ![c] =
             IF read.err
             THEN [q EXCEPT !.pc = "done", !.outcome = "failed", !.err = "cache"]
             ELSE IF read.val # NoPayload
             THEN [q EXCEPT !.pc = "done", !.outcome = "hit", !.payload = read.val]
             ELSE [q EXCEPT !.pc = "fetch", !.http = 1]]
    /\ UNCHANGED <<searchKeys, userCache, movies, rslv, rated, popular, db, reqs, redisHits, udoc, lastCall, everTrue, prefs,
                   redisState, cache>>

\* the provider answers a request: response.data, or the response interceptor
\* (which issues the request again or rejects)
ProviderRespond(c, resp) ==
    /\ svc[c].pc = "fetch"
    /\ LET q == svc[c]
       IN svc' = [svc EXCEPT ![c] =
             IF resp.failure = NoFailure
             THEN IF q.op \in CachedOps
                  THEN [q EXCEPT !.pc = "store", !.got = resp.data]
                  ELSE [q EXCEPT !.pc = "done", !.outcome = "fetched",
                                 !.got = resp.data, !.payload = resp.data]
             ELSE IF ShouldRetry(q.op, resp.failure, q.retry)
                  THEN [q EXCEPT !.retry = @ + 1, !.http = @ + 1,
                                 !.last = resp.failure]
                  ELSE OnProviderFailure(q, resp.failure)]
    /\ UNCHANGED <<searchKeys, userCache, movies, rslv, rated, popular, now, db, reqs, redisHits, udoc, lastCall, everTrue, prefs,
                   redisState, cache>>

\* await redisManager.set(cacheKey, data, ttl); return data
StoreResult(c) ==
    /\ svc[c].pc = "store"
    /\ LET q == svc[c]
           set == RedisSet(redisState, cache, CacheKey(q.op, q.arg), q.got,
                           Ttl(q.op), now)
       IN /\ cache' = set.store
          /\ svc' = [svc EXCEPT ![c] =
                IF set.err
                THEN [q EXCEPT !.pc = "done", !.outcome = "failed", !.err = "cache"]
                ELSE [q EXCEPT !.pc = "done", !.outcome = "fetched",
                               !.payload = q.got]]
    /\ UNCHANGED <<searchKeys, userCache, movies, rslv, rated, popular, now, db, reqs, redisHits, udoc, lastCall, everTrue, prefs,
                   redisState>>

\* the 'ready' / 'end' / 'error' events of the Redis client, and a server
\* that starts to fail every command
RedisChange(state) ==
    /\ state # redisState
    /\ redisState' = state
    /\ svc' = [c \in Callers |->
                 [svc[c] EXCEPT !.steady = FALSE, !.down = (@ /\ state # "up")]]
    /\ UNCHANGED <<searchKeys, userCache, movies, rslv, rated, popular, now, db, reqs, redisHits, udoc, lastCall, everTrue, prefs, cache>>

\* tmdbCacheService.invalidateMovieCache(arg)
InvalidateMovieCache(arg) ==
    /\ cache' = RedisDel(redisState, cache, CacheKey("getMovieDetails", arg))
    /\ svc' = [c \in Callers |->
                 IF svc[c].op = "getMovieDetails" /\ svc[c].arg = arg
                 THEN [svc[c] EXCEPT !.steady = FALSE] ELSE svc[c]]
    /\ UNCHANGED <<searchKeys, userCache, movies, rslv, rated, popular, now, db, reqs, redisHits, udoc, lastCall, everTrue, prefs,
                   redisState>>

\* the server may start without Redis ("Continuing without Redis")
InitCache ==
    /\ now = 0
    /\ db = NoDoc
    /\ reqs = [r \in Requests |-> IdleReq]
    /\ redisHits = 0
    /\ udoc = NoDoc
    /\ lastCall = NoCall
    /\ everTrue = {}
    /\ prefs = NoPrefs
    /\ redisState \in {"up", "down", "failing"}
    /\ cache = EmptyCache
    /\ svc = [c \in Callers |-> IdleCall]
    /\ movies = <<>>
    /\ rslv = [c \in Resolvers |-> IdleResolve]
    /\ rated = [u \in Users |-> {}]
    /\ popular = NoResponse
    /\ userCache = [u \in Users |-> NoResponse]
    /\ searchKeys = {}

\* getMovieDetails, and then once more
NextCache ==
    \/ \E arg \in CacheArgs, t \in 0..MaxCacheTick :
          /\ ~svc[1].hasPrev
          /\ StartCall(1, "getMovieDetails", arg, t)
    \/ \E resp \in Responses : ProviderRespond(1, resp)
    \/ StoreResult(1)
    \/ \E state \in {"up", "down", "failing"} : RedisChange(state)
    \/ \E arg \in CacheArgs : InvalidateMovieCache(arg)

SpecCache == InitCache /\ [][NextCache]_vars

\* one call of any operation, whatever the state of the store
NextRetry ==
    \/ \E op \in Ops, arg \in CacheArgs, t \in 0..MaxCacheTick :
          /\ svc[1].pc = "idle"
          /\ StartCall(1, op, arg, t)
    \/ \E resp \in Responses : ProviderRespond(1, resp)
    \/ StoreResult(1)
    \/ \E state \in {"up", "down", "failing"} : RedisChange(state)

InitRetry ==
    /\ now = 0
    /\ db = NoDoc
    /\ reqs = [r \in Requests |-> IdleReq]
    /\ redisHits = 0
    /\ udoc = NoDoc
    /\ lastCall = NoCall
    /\ everTrue = {}
    /\ prefs = NoPrefs
    /\ redisState \in {"up", "down", "failing"}
    /\ cache \in {EmptyCache, WarmCache}
    /\ svc = [c \in Callers |-> IdleCall]
    /\ movies = <<>>
    /\ rslv = [c \in Resolvers |-> IdleResolve]
    /\ rated = [u \in Users |-> {}]
    /\ popular = NoResponse
    /\ userCache = [u \in Users |-> NoResponse]
    /\ searchKeys = {}

SpecRetry == InitRetry /\ [][NextRetry]_vars

\* two callers of getMovieDetails at once, the store up
InitCacheConc == InitCache /\ redisState = "up"

NextCacheConc ==
    \/ \E c \in Callers, arg \in CacheArgs :
          /\ ~svc[c].hasPrev
          /\ StartCall(c, "getMovieDetails", arg, now)
    \/ \E c \in Callers, resp \in Responses : ProviderRespond(c, resp)
    \/ \E c \in Callers : StoreResult(c)

SpecCacheConc == InitCacheConc /\ [][NextCacheConc]_vars

----------------------------------------------------------------------------
(* searchMovieOnTMDB(null, null, tmdbId) and saveMovieToDatabase *)

\* Movie.findOne({ tmdbId }) first: a stored movie is returned as it is
ResolveStart(c, id) ==
    LET q == rslv[c]
        dbMovie == FindOne(movies, id)
        q0 == [IdleResolve EXCEPT !.id = id, !.inStore = id \in StoredIds(movies)]
    IN /\ q.pc \in {"idle", "done"}
       /\ rslv' = [rslv EXCEPT ![c] =
             IF dbMovie # NoMovieDoc
             THEN [q0 EXCEPT !.pc = "done", !.result = dbMovie.data]
             ELSE [q0 EXCEPT !.pc = "details"]]
       /\ UNCHANGED <<searchKeys, userCache, movies, rated, popular, now, db, reqs, redisHits, udoc,
                      lastCall, everTrue, prefs, redisState, cache, svc>>

\* axiosInstance.get(detailsUrl): the details, or a failure that the outer
\* catch turns into `return null`
ResolveDetails(c, resp) ==
    LET q == rslv[c]
    IN /\ q.pc = "details"
       /\ rslv' = [rslv EXCEPT ![c] =
             IF resp \in Payloads
             THEN [q EXCEPT !.pc = "saveFind", !.http = q.http + 1, !.fetched = resp]
             ELSE [q EXCEPT !.pc = "done", !.http = q.http + 1, !.result = "null"]]
       /\ UNCHANGED <<searchKeys, userCache, movies, rated, popular, now, db, reqs, redisHits, udoc,
                      lastCall, everTrue, prefs, redisState, cache, svc>>

\* saveMovieToDatabase: Movie.findOne again; an existing movie is kept
SaveFind(c) ==
    LET q == rslv[c]
        existingMovie == FindOne(movies, q.id)
    IN /\ q.pc = "saveFind"
       /\ rslv' = [rslv EXCEPT ![c] =
             IF existingMovie # NoMovieDoc
             THEN [q EXCEPT !.pc = "done", !.saved = "existing", !.result = q.fetched]
             ELSE [q EXCEPT !.pc = "insert"]]
       /\ UNCHANGED <<searchKeys, userCache, movies, rated, popular, now, db, reqs, redisHits, udoc,
                      lastCall, everTrue, prefs, redisState, cache, svc>>

\* saveMovieToDatabase: movie.save(); a rejected save is caught and logged,
\* and searchMovieOnTMDB returns movieData whatever the save returned
SaveInsert(c) ==
    LET q == rslv[c]
        r == InsertMovie(movies, MovieDoc(q.id, q.fetched))
    IN /\ q.pc = "insert"
       /\ movies' = r.coll
       /\ rslv' = [rslv EXCEPT ![c] =
             [q EXCEPT !.pc = "done", !.result = q.fetched,
                       !.saved = IF r.ok THEN "inserted" ELSE "rejected"]]
       /\ UNCHANGED <<searchKeys, userCache, rated, popular, now, db, reqs, redisHits, udoc,
                      lastCall, everTrue, prefs, redisState, cache, svc>>

InitResolve == InitPrefs /\ movies = <<>>

\* two callers resolving ids at once
NextResolve ==
    \/ \E c \in Resolvers, id \in StoreIds : ResolveStart(c, id)
    \/ \E c \in Resolvers, resp \in Payloads \cup {"fail"} : ResolveDetails(c, resp)
    \/ \E c \in Resolvers : SaveFind(c)
    \/ \E c \in Resolvers : SaveInsert(c)

SpecResolve == InitResolve /\ [][NextResolve]_vars

----------------------------------------------------------------------------
(* TMDBCacheService.getBatchMovieDetails *)

\* longest list of ids passed to one batch
MaxBatch == 3

BatchInputs == UNION {[1..n -> BatchIds] : n \in 0..MaxBatch}

\* what getMovieDetails ends with for an id that is not cached: the payload, or
\* the error it throws once its client has given up
FetchOutcomes == Payloads \cup {"5xx", "network"}

BatchItem(id, data, fromCache, error) ==
    [id |-> id, data |-> data, fromCache |-> fromCache, error |-> error]

\* the positions of ids, in order, whose cache read hit / missed
Positions(ids) == [i \in 1..Len(ids) |-> i]
CachedAt(state, store, ids, i, t) ==
    RedisGet(state, store, CacheKey("getMovieDetails", ids[i]), t).val # NoPayload

\* first loop: { id, data: cached, fromCache: true } for every hit
CachedItems(state, store, ids, t) ==
    LET idx == SelectSeq(Positions(ids), LAMBDA i : CachedAt(state, store, ids, i, t))
    IN [k \in 1..Len(idx) |->
          BatchItem(ids[idx[k]],
                    RedisGet(state, store, CacheKey("getMovieDetails", ids[idx[k]]), t).val,
                    TRUE, NoFailure)]

\* the item of one uncached id: try { data, fromCache: false } catch { id, error }
FetchedItem(id, outcome) ==
    IF outcome \in Payloads
    THEN BatchItem(id, outcome, FALSE, NoFailure)
    ELSE BatchItem(id, NoPayload, FALSE, outcome)

\* second loop: Promise.all over the uncached ids, five at a time
FetchedItems_DropFailed(state, store, ids, fetch, t) ==
    LET idx == SelectSeq(Positions(ids),
                   LAMBDA i : ~CachedAt(state, store, ids, i, t) /\ fetch[i] \in Payloads)
    IN [k \in 1..Len(idx) |-> FetchedItem(ids[idx[k]], fetch[idx[k]])]
FetchedItems(state, store, ids, fetch, t) ==
    LET idx == SelectSeq(Positions(ids), LAMBDA i : ~CachedAt(state, store, ids, i, t))
    IN [k \in 1..Len(idx) |-> FetchedItem(ids[idx[k]], fetch[idx[k]])]

\* getMovieDetails stores every payload it fetched
RECURSIVE StoreFetched(_, _, _, _, _, _)
StoreFetched(state, store, before, ids, fetch, t) ==
    IF ids = <<>> THEN store
    ELSE LET key == CacheKey("getMovieDetails", Head(ids))
             miss == RedisGet(state, before, key, t).val = NoPayload
             next == IF miss /\ Head(fetch) \in Payloads
                     THEN RedisSet(state, store, key, Head(fetch),
                                   Ttl("getMovieDetails"), t).store
                     ELSE store
         IN StoreFetched(state, next, before, Tail(ids), Tail(fetch), t)

GetBatchMovieDetails(ids, fetch) ==
    /\ lastCall.op = "none"
    /\ lastCall' = [op |-> "batch", ids |-> ids, fetch |-> fetch, before |-> cache,
                    results |-> CachedItems(redisState, cache, ids, now)
                                  \o FetchedItems(redisState, cache, ids, fetch, now)]
    /\ cache' = StoreFetched(redisState, cache, cache, ids, fetch, now)
    /\ UNCHANGED <<searchKeys, userCache, movies, rslv, rated, popular, now, db, reqs, redisHits, udoc,
                   everTrue, prefs, redisState, svc>>

\* the cache as earlier calls may have left it: each id stored or not
BatchCaches ==
    {[k \in Keys |-> IF k \in {CacheKey("getMovieDetails", id) : id \in S}
                     THEN [payload |-> "p1", setAt |-> 0, ttl |-> Ttl("getMovieDetails")]
                     ELSE NoEntry] : S \in SUBSET BatchIds}

InitBatch ==
    /\ now = 0
    /\ db = NoDoc
    /\ reqs = [r \in Requests |-> IdleReq]
    /\ redisHits = 0
    /\ udoc = NoDoc
    /\ lastCall = NoCall
    /\ everTrue = {}
    /\ prefs = NoPrefs
    /\ redisState \in {"up", "down", "failing"}
    /\ cache \in BatchCaches
    /\ svc = [c \in Callers |-> IdleCall]
    /\ movies = <<>>
    /\ rslv = [c \in Resolvers |-> IdleResolve]
    /\ rated = [u \in Users |-> {}]
    /\ popular = NoResponse
    /\ userCache = [u \in Users |-> NoResponse]
    /\ searchKeys = {}

\* one batch, on any list of ids
NextBatch ==
    \E ids \in BatchInputs :
       \E fetch \in [1..Len(ids) -> FetchOutcomes] : GetBatchMovieDetails(ids, fetch)

SpecBatch == InitBatch /\ [][NextBatch]_vars

----------------------------------------------------------------------------
(* POST /feedback of a caller that sends its own genre list *)

\* req.body.genres of the caller
CallerGenres == <<GenreStr("Drama")>>

InitBackfill == InitFeedback /\ udoc.hist = <<>>

\* movieInDb is what the backfill ended with: Movie.findOne, then
\* searchMovieOnTMDB by id, then searchMovieOnTMDB by title
NextBackfill ==
    \E m \in PrefMovies, accepted \in BOOLEAN, movieInDb \in FoundMovies, saves \in 0..2 :
       Feedback("cur", m, accepted, CallerGenres, movieInDb, saves, now)

SpecBackfill == InitBackfill /\ [][NextBackfill]_vars

----------------------------------------------------------------------------
(* searchMovieOnTMDB(title, year): the choice among the search results *)

\* most results of one search the model explores
MaxResults == 3

\* release_date of a search result: absent, or <<year, month, day>>
NoDate == <<>>
ReleaseDates == {NoDate, <<2019, 12, 31>>, <<2020, 6, 15>>}

\* recommendation.year of the suggestion; NoYear when none is given
NoYear == 0
SuggestedYears == {NoYear, 2019, 2020}

\* new Date(release_date).getFullYear()
GetFullYear(date) == date[1]

\* response.data.results: the result at rank i has id i
SearchResults ==
    UNION {[1..n -> {[id |-> 0, release_date |-> d] : d \in ReleaseDates}] : n \in 0..MaxResults}
Ranked(results) == [i \in DOMAIN results |-> [results[i] EXCEPT !.id = i]]

NoCandidate == [id |-> 0, release_date |-> NoDate]

\* m.release_date && new Date(m.release_date).getFullYear() === parseInt(year)
YearMatches(m, year) == m.release_date # NoDate /\ GetFullYear(m.release_date) = year

\* results[0], replaced by results.find(...) when a year is given, there is
\* more than one result and one of them matches
ChooseCandidate_TopRanked(results, year) ==
    IF results = <<>> THEN NoCandidate ELSE results[1]
ChooseCandidate(results, year) ==
    IF results = <<>> THEN NoCandidate
    ELSE IF year # NoYear /\ Len(results) > 1
              /\ \E i \in DOMAIN results : YearMatches(results[i], year)
         THEN results[CHOOSE i \in DOMAIN results :
                         /\ YearMatches(results[i], year)
                         /\ \A j \in 1..(i - 1) : ~YearMatches(results[j], year)]
         ELSE results[1]

\* one provider search and the choice made on its results
SearchByTitle(results, year) ==
    /\ lastCall' = [op |-> "search", results |-> Ranked(results), year |-> year,
                    chosen |-> ChooseCandidate(Ranked(results), year)]
    /\ UNCHANGED <<searchKeys, userCache, movies, rslv, rated, popular, now, db, reqs, redisHits, udoc,
                   everTrue, prefs, redisState, cache, svc>>

InitSearch == InitPrefs /\ lastCall = NoCall

NextSearch == \E results \in SearchResults, year \in SuggestedYears : SearchByTitle(results, year)

SpecSearch == InitSearch /\ [][NextSearch]_vars

----------------------------------------------------------------------------
(* GET /popular/:genres? behind authMiddleware and cacheTMDBPopular *)

\* the movies the discover requests of the provider return
Catalogue == {1, 2}

\* RedisManager.TTL.TMDB_POPULAR, in seconds
PopularTtl == 12 * 60 * 60

\* the handler's filter: !ratedMovieIdsArray.includes(movie.id)
Unrated(list, ratedIds) == list \ ratedIds

\* cacheMiddleware: the key is tmdb:popular:<genres>, the same for every user
CachedResponse(state, entry, t) ==
    IF state = "up" /\ entry.set /\ ~Expired(entry, t)
    THEN [hit |-> TRUE, list |-> entry.list]
    ELSE [hit |-> FALSE, list |-> {}]

\* one request of user u; ok tells whether the provider returned its movies
\* (otherwise the handler answers 500, which is not cached)
GetPopular(u, ok, t) ==
    LET cached == CachedResponse(redisState, popular, t)
        list == Unrated(Catalogue, rated[u])
    IN /\ t \in ClockReadings
       /\ now' = t
       /\ lastCall' = [op |-> "popular", user |-> u, hit |-> cached.hit,
                       ratedIds |-> rated[u],
                       status |-> IF cached.hit \/ ok THEN 200 ELSE 500,
                       list |-> IF cached.hit THEN cached.list
                                ELSE IF ok THEN list ELSE {}]
       /\ popular' = IF ~cached.hit /\ ok /\ redisState = "up"
                     THEN [list |-> list, set |-> TRUE, setAt |-> t, ttl |-> PopularTtl]
                     ELSE popular
       /\ UNCHANGED <<searchKeys, userCache, movies, rslv, rated, db, reqs, redisHits, udoc, everTrue,
                      prefs, redisState, cache, svc>>

\* POST /feedback of user u on movie m: the movie enters the user's liked or
\* disliked movies; invalidateUserCache deletes the user's own keys only
Rate(u, m) ==
    /\ rated' = [rated EXCEPT ![u] = @ \cup {m}]
    /\ userCache' = IF redisState = "up" THEN [userCache EXCEPT ![u] = NoResponse]
                    ELSE userCache
    /\ UNCHANGED <<searchKeys, movies, rslv, popular, now, db, reqs, redisHits, udoc, lastCall,
                   everTrue, prefs, redisState, cache, svc>>

InitPopular == InitPrefs /\ popular = NoResponse

NextPopular ==
    \/ \E u \in Users, ok \in BOOLEAN, t \in 0..MaxTick : GetPopular(u, ok, t)
    \/ \E u \in Users, m \in Catalogue : Rate(u, m)

SpecPopular == InitPopular /\ [][NextPopular]_vars

----------------------------------------------------------------------------
(* GET /users/preferences behind cacheUserPreferences, and the routes that  *)
(* change the liked and disliked movies of a user                           *)

\* RedisManager.TTL.USER_PREFERENCES, in seconds
UserPreferencesTtl == 15 * 60

\* GET /users/preferences of user u: the cached response, or the stored
\* preferences, which the res.json override then stores under the user's key
GetPreferences(u, t) ==
    LET cached == CachedResponse(redisState, userCache[u], t)
    IN /\ t \in ClockReadings
       /\ now' = t
       /\ lastCall' = [op |-> "getPreferences", user |-> u, hit |-> cached.hit,
                       stored |-> rated[u],
                       list |-> IF cached.hit THEN cached.list ELSE rated[u]]
       /\ userCache' = IF ~cached.hit /\ redisState = "up"
                       THEN [userCache EXCEPT ![u] =
                               [list |-> rated[u], set |-> TRUE, setAt |-> t,
                                ttl |-> UserPreferencesTtl]]
                       ELSE userCache
       /\ UNCHANGED <<searchKeys, movies, rslv, rated, popular, db, reqs, redisHits, udoc,
                      everTrue, prefs, redisState, cache, svc>>

\* DELETE /users/preferences/liked/:tmdbId and .../disliked/:tmdbId: the movie
\* leaves every bucket, user.save(); the route has no cache middleware
RemoveRated(u, m) ==
    /\ m \in rated[u]
    /\ rated' = [rated EXCEPT ![u] = @ \ {m}]
    /\ UNCHANGED <<searchKeys, userCache, movies, rslv, popular, now, db, reqs, redisHits, udoc,
                   lastCall, everTrue, prefs, redisState, cache, svc>>

InitUserCache == InitPrefs /\ userCache = [u \in Users |-> NoResponse]

NextUserCache ==
    \/ \E u \in Users, t \in 0..MaxTick : GetPreferences(u, t)
    \/ \E u \in Users, m \in Catalogue : Rate(u, m)
    \/ \E u \in Users, m \in Catalogue : RemoveRated(u, m)

SpecUserCache == InitUserCache /\ [][NextUserCache]_vars

----------------------------------------------------------------------------
(* TMDBCacheService.searchMovies and invalidateSearchCache: the keys          *)
(* tmdb:search:<base64 of "query:page"> and the pattern                       *)
(* tmdb:search:*<base64 of query>*                                            *)

\* queries, as the bytes of their text: "a", "ab", "abc"
Queries == {<<97>>, <<97, 98>>, <<97, 98, 99>>}
\* pages, with the byte of their decimal text: "1", "2"
Pages == {1, 2}
PageByte(p) == 48 + p
\* the byte of ":"
Colon == 58
\* the padding character "=" next to the 64 characters of the alphabet
Pad == 64

\* Buffer.from(text).toString('base64'): three bytes make four characters, a
\* last group of one or two bytes is filled up with "="
RECURSIVE Base64(_)
Base64(bytes) ==
    IF Len(bytes) = 0 THEN <<>>
    ELSE IF Len(bytes) = 1
    THEN LET n == bytes[1] * 16
         IN <<n \div 64, n % 64, Pad, Pad>>
    ELSE IF Len(bytes) = 2
    THEN LET n == (bytes[1] * 256 + bytes[2]) * 4
         IN <<n \div 4096, (n \div 64) % 64, n % 64, Pad>>
    ELSE LET n == bytes[1] * 65536 + bytes[2] * 256 + bytes[3]
         IN <<n \div 262144, (n \div 4096) % 64, (n \div 64) % 64, n % 64>>
               \o Base64(SubSeq(bytes, 4, Len(bytes)))

\* RedisManager.keys.tmdbSearch(query, page), after the prefix tmdb:search:
SearchKey(query, page) == Base64(query \o <<Colon, PageByte(page)>>)

\* the pattern of invalidateSearchCache(query), between its two "*"
SearchPattern(query) == Base64(query)

\* client.keys(pattern) for a pattern *x*: the keys that contain x
Matches(x, key) ==
    \E i \in 0..(Len(key) - Len(x)) : SubSeq(key, i + 1, i + Len(x)) = x

\* searchMovies(query, page): a hit on a stored key, else the provider call
\* and redisManager.set of its result
SearchMovies(query, page, ok) ==
    LET key == SearchKey(query, page)
        hit == redisState = "up" /\ key \in searchKeys
    IN /\ lastCall' = [op |-> "searchMovies", query |-> query, page |-> page,
                       hit |-> hit, http |-> IF hit THEN 0 ELSE 1]
       /\ searchKeys' = IF ~hit /\ ok /\ redisState = "up"
                        THEN searchKeys \cup {key} ELSE searchKeys
       /\ UNCHANGED <<userCache, movies, rslv, rated, popular, now, db, reqs,
                      redisHits, udoc, everTrue, prefs, redisState, cache, svc>>

\* invalidateSearchCache(query): redisManager.invalidatePattern
InvalidateSearchCache(query) ==
    /\ lastCall' = [op |-> "invalidateSearchCache", query |-> query, page |-> 0,
                    hit |-> FALSE, http |-> 0]
    /\ searchKeys' = IF redisState = "up"
                     THEN {k \in searchKeys : ~Matches(SearchPattern(query), k)}
                     ELSE searchKeys
    /\ UNCHANGED <<userCache, movies, rslv, rated, popular, now, db, reqs,
                   redisHits, udoc, everTrue, prefs, redisState, cache, svc>>

InitSearchCache == InitPrefs /\ searchKeys = {}

NextSearchCache ==
    \/ \E query \in Queries, page \in Pages, ok \in BOOLEAN : SearchMovies(query, page, ok)
    \/ \E query \in Queries : InvalidateSearchCache(query)

SpecSearchCache == InitSearchCache /\ [][NextSearchCache]_vars

\* genre lists without a recognized genre, and one list that has one
NoGenreLists == {<<>>, <<GenreId(999)>>, <<GenreId(999), GenreId(0)>>, <<GenreId(28)>>}

NextNoGenre ==
    \/ \E m \in PrefMovies, g \in NoGenreLists : UserAddLikedMovie(m, g)
    \/ \E m \in PrefMovies, g \in NoGenreLists : UserAddDislikedMovie(m, g)

SpecNoGenre == InitPrefs /\ [][NextNoGenre]_vars

----------------------------------------------------------------------------
(* Properties *)

NewIds(q) == HistIds(db.hist) \ HistIds(q.start.hist)

\* C1: a request of a user whose count for the current date is at the ceiling
\* never calls the generative provider, ends in the quota-exceeded outcome and
\* changes neither the history nor the count.
C1_QuotaGateFirst ==
    \A r \in Requests :
        LET q == reqs[r]
        IN (q.pc # "idle" /\ q.atCeiling) =>
              /\ q.calls = 0
              /\ q.pc = "done" /\ q.outcome = "quota"
              /\ db = q.start

\* C2: one request raises the persisted count by at most 1, and by exactly 1
\* only when exactly one new recommendation was recorded and returned.
C2_CountAtMostOnce ==
    LET q == reqs[1]
    IN q.pc = "done" =>
          /\ db.count <= q.start.count + 1
          /\ db.count = q.start.count + 1 =>
                /\ q.outcome = "ok"
                /\ NewIds(q) = {q.resp.movie}

\* C3: the commit is all-or-nothing: a request that did not succeed persists
\* nothing, and a request that succeeded persists the entry of the returned
\* movie and no entry of an earlier, failed attempt.
C3_AllOrNothing ==
    LET q == reqs[1]
    IN q.pc = "done" =>
          /\ q.outcome # "ok" => db = q.start
          /\ q.outcome = "ok" =>
                /\ q.resp.movie \in HistIds(db.hist)
                /\ Cardinality({i \in DOMAIN db.hist :
                       db.hist[i].movieId \notin HistIds(q.start.hist)}) = 1

\* C5: the movie returned was not in the user's history when the request started.
C5_NeverReturnsDuplicate ==
    LET q == reqs[1]
    IN (q.pc = "done" /\ q.outcome = "ok") =>
          q.resp.movie \notin HistIds(q.start.hist)

C6_Limit(q) == IF q.alt THEN 5 ELSE 3

C6_Counted ==
    LET q == reqs[1]
    IN /\ q.calls <= C6_Limit(q)
       /\ q.pc = "generate" => q.attempts = q.calls /\ q.attempts < C6_Limit(q)
       /\ q.pc \in {"resolve", "save"} => q.attempts = q.calls - 1
       /\ (q.pc = "done" /\ q.outcome = "ok") => q.attempts = q.calls - 1
       /\ (q.pc = "done" /\ q.outcome = "notfound") =>
             q.attempts = q.calls /\ q.calls = C6_Limit(q)

C7_AllDuplicatesExhaust ==
    LET q == reqs[1]
    IN (q.onlyDups /\ q.calls > 0 /\ q.pc \in {"generate", "done"}) =>
          /\ q.doc.hist = q.start.hist /\ db = q.start
          /\ q.pc = "done" =>
                /\ q.outcome = "notfound"
                /\ q.calls = IF q.alt THEN 5 ELSE 3

C7_Witness ==
    /\ reqs[1].pc = "done" /\ reqs[1].onlyDups /\ reqs[1].calls = 5
    /\ reqs[1].outcome = "notfound"

C9_OneInserterWins ==
    ~ /\ reqs[1].pc = "save" /\ reqs[2].pc = "save"
      /\ reqs[1].cand = reqs[2].cand

\* no two entries share a movieId
Unique(hist) == Cardinality(HistIds(hist)) = Len(hist)

\* C4 as stated: addRecommendation returns true for an id only on the first
\* call with that id.
C4_OnlyFirstCallTrue ==
    (lastCall.op = "add" /\ lastCall.ret) => ~lastCall.wasEver

\* C4: addRecommendation returns true (and inserts) exactly when no entry with
\* that movieId is in the history at the time of the call; with the id present
\* it returns false and leaves the document unchanged; movieId stays unique.
C4_InsertIffAbsent ==
    /\ Unique(udoc.hist)
    /\ lastCall.op = "add" =>
          /\ lastCall.ret = (lastCall.id \notin HistIds(lastCall.before.hist))
          /\ ~lastCall.ret => udoc = lastCall.before

C4_Witness ==
    /\ lastCall.op = "add" /\ ~lastCall.ret /\ lastCall.wasEver
    /\ Len(udoc.hist) > 1

\* C10: checkDailyLimit on a calendar date other than the stored one resets the
\* count to 0 and stores the current date before testing the ceiling, so it
\* returns true; on the stored date it changes nothing; it never increments.
C10_RollsOnDateChange ==
    lastCall.op = "check" =>
        LET b == lastCall.before
        IN /\ DateString(lastCall.t) # DateString(b.date) =>
                 /\ udoc.count = 0 /\ udoc.date = lastCall.t
                 /\ lastCall.ret
           /\ DateString(lastCall.t) = DateString(b.date) =>
                 /\ udoc = b
                 /\ lastCall.ret = (b.count < 5)
           /\ udoc.count <= b.count
           /\ udoc.hist = b.hist

C10_Witness ==
    /\ lastCall.op = "check" /\ lastCall.before.count = 5
    /\ DateString(lastCall.t) # DateString(lastCall.before.date)
    /\ lastCall.t - lastCall.before.date < TicksPerDay
    /\ udoc.count = 0 /\ lastCall.ret

\* C11: the length of recommendationHistory never exceeds 100.
C11_HistoryBounded == Len(udoc.hist) <= HistoryCap

\* C12: no movie id is in a liked bucket and in a disliked bucket at once, and
\* every call leaves no entry of its movie in any bucket of the opposite side.
C12_Exclusive ==
    /\ PrefIds(prefs.liked) \cap PrefIds(prefs.disliked) = {}
    /\ \A m \in PrefMovies, g \in RawGenreLists :
          /\ m \notin PrefIds(AddLikedMovie(prefs, [tmdbId |-> m, title |-> Title(m),
                                                   genres |-> g]).disliked)
          /\ m \notin PrefIds(AddDislikedMovie(prefs, [tmdbId |-> m, title |-> Title(m),
                                                      genres |-> g]).liked)

C12_Witness ==
    /\ lastCall.op = "dislike" /\ lastCall.wasOpposite /\ lastCall.id = 1
    /\ DOMAIN prefs.disliked = {"action", "drama"}
    /\ 2 \in PrefIds(prefs.liked)

\* the number of entries of movie m in a bucket
CountIn(bucket, m) == Cardinality({i \in DOMAIN bucket : bucket[i].tmdbId = m})

\* C13: after addLikedMovie / addDislikedMovie of M with genre list G, M is
\* exactly once in the bucket of every genre name of G on that side, no
\* bucket of either side holds two entries with the same id, and the same call
\* again leaves the preferences as they are.
C13_ReplaceById ==
    /\ \A side \in {prefs.liked, prefs.disliked} : \A g \in DOMAIN side :
          \A m \in PrefMovies : CountIn(side[g], m) <= 1
    /\ lastCall.op \in {"like", "dislike"} =>
          LET m == lastCall.id
              movie == [tmdbId |-> m, title |-> Title(m), genres |-> lastCall.genres]
              side == IF lastCall.op = "like" THEN prefs.liked ELSE prefs.disliked
              names == GenreNames(lastCall.genres)
              again == IF lastCall.op = "like" THEN AddLikedMovie(prefs, movie)
                       ELSE AddDislikedMovie(prefs, movie)
          IN /\ \A i \in DOMAIN names :
                   /\ names[i] \in DOMAIN side
                   /\ CountIn(side[names[i]], m) = 1
                   /\ \E k \in DOMAIN side[names[i]] :
                         side[names[i]][k] = MovieData(movie)
             /\ again = prefs

C13_Witness ==
    /\ lastCall.op = "like" /\ lastCall.wasSame /\ lastCall.id = 1
    /\ Len(lastCall.genres) = 3
    /\ "drama" \in DOMAIN prefs.liked /\ Len(prefs.liked["action"]) = 2
    /\ prefs.liked["action"][1].tmdbId = 1
    /\ prefs.liked["drama"][1].genres # prefs.liked["action"][1].genres

\* the second of two calls with the same arguments has ended, the store was
\* up and the key was not invalidated from the start of the first call on, and
\* the second call began within the TTL of what the first stored
TwoConsecutiveCalls(q) ==
    /\ q.op = "getMovieDetails" /\ q.hasPrev
    /\ q.prevSteady /\ q.steady
    /\ (q.t0 - q.prevT0) * SecondsPerTick < Ttl(q.op)

\* C14 as stated: two consecutive getMovieDetails(id) calls, the first on a
\* cold key, issue exactly one provider call in total and return the same
\* payload.
C14_ExactlyOneProviderCall ==
    LET q == svc[1]
    IN (TwoConsecutiveCalls(q) /\ q.pc = "done" /\ q.prevOutcome # "hit") =>
          /\ q.prevHttp + q.http = 1
          /\ q.prevOutcome = "fetched" /\ q.outcome \in {"hit", "fetched"}
          /\ q.payload = q.prevPayload

\* C14: when the first of two consecutive getMovieDetails(id) calls misses and
\* returns a payload, the second is a cache hit: it issues no provider call and
\* returns the same payload; the first issued one provider call per try (1,
\* and up to 4 when 5xx answers were retried).
C14_SecondCallHits ==
    LET q == svc[1]
    IN (TwoConsecutiveCalls(q) /\ q.prevOutcome = "fetched") =>
          /\ q.pc = "done" /\ q.outcome = "hit"
          /\ q.http = 0
          /\ q.payload = q.prevPayload /\ q.payload \in Payloads
          /\ q.prevHttp \in 1..(MaxRetries + 1)

C14_Witness ==
    /\ TwoConsecutiveCalls(svc[1]) /\ svc[1].pc = "done"
    /\ svc[1].prevOutcome = "fetched" /\ svc[1].prevHttp = 2
    /\ svc[1].outcome = "hit" /\ svc[1].payload = "p2"
    /\ svc[1].t0 > svc[1].prevT0

\* C15: while the store is not up (never connected, disconnected or failing),
\* a call of a cached operation reads a miss, goes to the provider and returns
\* the provider's payload or the provider's failure, never a failure of the
\* cache, and no step changes what the store holds.
C15_CacheOptional ==
    /\ [](LET q == svc[1]
          IN (q.down /\ q.op \in CachedOps /\ q.pc # "idle") =>
                /\ q.http >= 1
                /\ q.outcome # "hit" /\ q.err # "cache"
                /\ q.outcome = "fetched" => q.payload = q.got /\ q.got \in Payloads
                /\ q.outcome = "failed" => q.err \in Failures)
    /\ [][redisState # "up" => cache' = cache]_vars

C15_Witness ==
    /\ svc[1].down /\ svc[1].pc = "done" /\ svc[1].op = "searchMovies"
    /\ svc[1].outcome = "fetched" /\ svc[1].payload = "p2"
    /\ redisState = "failing" /\ cache = WarmCache

\* C16: a call of a cached operation that misses and whose provider call fails
\* (for a 5xx, after the retries) ends with that failure and without a
\* payload, the failing step writes nothing to the cache, and the key still
\* reads as a miss afterwards; a payload a call returns after a miss is one
\* the provider sent.
C16_FailurePropagates ==
    /\ [](LET q == svc[1]
          IN (q.op \in CachedOps /\ q.pc = "done" /\ q.outcome = "fetched") =>
                q.payload = q.got /\ q.got \in Payloads)
    /\ [](LET q == svc[1]
          IN (q.op \in CachedOps /\ q.pc = "done" /\ q.outcome = "failed") =>
                /\ q.payload = NoPayload
                /\ q.err \in Failures
                /\ q.err = "5xx" => q.retry = MaxRetries /\ q.http = MaxRetries + 1
                /\ q.steady =>
                      RedisGet(redisState, cache, CacheKey(q.op, q.arg), now).val
                         = NoPayload)
    /\ [][(svc[1].pc = "fetch" /\ svc'[1].pc = "done") => cache' = cache]_vars

C16_Witness ==
    /\ svc[1].op = "getPopularMovies" /\ svc[1].pc = "done"
    /\ svc[1].outcome = "failed" /\ svc[1].err = "5xx" /\ svc[1].retry = 3
    /\ svc[1].steady

\* C17: two concurrent getMovieDetails(id) calls for the same id never both
\* have a provider request out.
C17_OneProviderCallPerId ==
    ~ /\ svc[1].pc = "fetch" /\ svc[2].pc = "fetch"
      /\ svc[1].arg = svc[2].arg

Transient == {"5xx", "network", "timeout"}

\* C18: a tmdbRequest makes at most 4 provider calls; it fails with a transient
\* failure only after 3 retries (4 calls); a 4xx is never followed by another
\* request, so a request whose first answer is a 4xx makes exactly one call.
C18_SharedRetryPolicy ==
    LET q == svc[1]
    IN (q.op = "tmdbRequest" /\ q.pc # "idle") =>
          /\ q.retry <= SharedRetry /\ q.http = q.retry + 1
          /\ q.pc = "fetch" => q.last \in Transient \cup {NoFailure}
          /\ (q.pc = "done" /\ q.outcome = "failed") =>
                /\ q.err \in Failures
                /\ q.err \in Transient => q.retry = SharedRetry /\ q.http = SharedRetry + 1
                /\ (q.err = "4xx" /\ q.retry = 0) => q.http = 1

C18_Witness ==
    /\ svc[1].op = "tmdbRequest" /\ svc[1].pc = "done"
    /\ svc[1].outcome = "failed" /\ svc[1].err = "timeout"
    /\ svc[1].retry = 3 /\ svc[1].http = 4

\* C19: a call of a cached operation that fails with a network error or a
\* timeout has been retried 3 times.
C19_NetworkErrorsRetried ==
    LET q == svc[1]
    IN (q.op \in CachedOps /\ q.pc = "done" /\ q.outcome = "failed"
          /\ q.err \in {"network", "timeout"}) =>
          q.retry = MaxRetries

\* C20: once user.save() has failed in a request, the request is over with the
\* internal-error outcome, and nothing of it is stored.
C20_SaveFailureFatal ==
    LET q == reqs[1]
    IN q.saveFailed =>
          /\ q.pc = "done" /\ q.outcome = "error"
          /\ db = q.start

CountId(items, id) == Cardinality({i \in 1..Len(items) : items[i].id = id})

C23_OneItemPerId ==
    lastCall.op = "batch" =>
       LET ids == lastCall.ids
           res == lastCall.results
           readable(id) == RedisGet(redisState, lastCall.before,
                                    CacheKey("getMovieDetails", id), now).val
       IN /\ Len(res) = Len(ids)
          /\ \A id \in BatchIds :
                CountId(res, id) = Cardinality({i \in 1..Len(ids) : ids[i] = id})
          /\ \A k \in 1..Len(res) :
                /\ res[k].fromCache =>
                      /\ readable(res[k].id) # NoPayload
                      /\ res[k].data = readable(res[k].id)
                      /\ res[k].error = NoFailure
                /\ res[k].error # NoFailure => res[k].data = NoPayload
                /\ res[k].error = NoFailure => res[k].data \in Payloads
          /\ \A i \in 1..Len(ids) :
                readable(ids[i]) = NoPayload =>
                   \E k \in 1..Len(res) :
                      res[k] = FetchedItem(ids[i], lastCall.fetch[i])

C23_Witness ==
    /\ lastCall.op = "batch" /\ Len(lastCall.ids) = 3
    /\ \E k \in 1..3 : lastCall.results[k].fromCache
    /\ \E k \in 1..3 : lastCall.results[k].error = "5xx"
    /\ \E k \in 1..3 : ~lastCall.results[k].fromCache /\ lastCall.results[k].data = "p2"

\* C24: no movie is recorded under a genre bucket that comes from the genre
\* list of the caller: the caller sends "Drama", the resolved metadata never
\* has it, so neither map has a "drama" bucket.
C24_GenuineGenresOnly ==
    \A name \in {ToLowerCase(GenreName(CallerGenres[i])) : i \in 1..Len(CallerGenres)} :
       /\ name \notin DOMAIN prefs.liked
       /\ name \notin DOMAIN prefs.disliked

C26_SortedAndOldestEvicted ==
    (lastCall.op = "add" /\ lastCall.ret) =>
       LET old == lastCall.before.hist
           new == udoc.hist
           inserted == [movieId |-> lastCall.id, accepted |-> "unset", ts |-> lastCall.t]
           kept == {new[i] : i \in DOMAIN new}
           dropped == {old[i] : i \in DOMAIN old} \ kept
       IN /\ IsSortedDesc(new)
          /\ inserted \in kept
          /\ Len(new) = IF Len(old) + 1 > HistoryCap THEN HistoryCap ELSE Len(old) + 1
          /\ kept \subseteq {old[i] : i \in DOMAIN old} \cup {inserted}
          /\ \A d \in dropped, k \in kept : d.ts <= k.ts

C26_Witness ==
    /\ lastCall.op = "add" /\ lastCall.ret
    /\ Len(lastCall.before.hist) = HistoryCap /\ Len(udoc.hist) = HistoryCap
    /\ udoc.hist[1].movieId = lastCall.id
    /\ 1 \in HistIds(lastCall.before.hist) /\ 1 \notin HistIds(udoc.hist)

\* C27: of several search results the one chosen is the first whose release
\* year is the suggested year, when a year is given and some result has it; in
\* every other case it is the result ranked first.
C27_YearMatchElseTop ==
    (lastCall.op = "search" /\ Len(lastCall.results) > 1) =>
       LET res == lastCall.results
           year == lastCall.year
           hits == {i \in DOMAIN res : res[i].release_date # NoDate
                                         /\ res[i].release_date[1] = year}
       IN IF year # NoYear /\ hits # {}
          THEN /\ lastCall.chosen.id \in hits
               /\ \A i \in hits : lastCall.chosen.id <= i
          ELSE lastCall.chosen = res[1]

C27_Witness ==
    /\ lastCall.op = "search" /\ Len(lastCall.results) = 3
    /\ lastCall.year = 2020
    /\ lastCall.results[1].release_date = <<2019, 12, 31>>
    /\ lastCall.results[2].release_date = <<2020, 6, 15>>
    /\ lastCall.results[3].release_date = <<2020, 6, 15>>
    /\ lastCall.chosen.id = 2

\* C28: a step in which the reply does not parse, the reply lacks title or
\* reason, or the resolution of the title yields nothing adds one to the
\* attempt counter, leaves the user document of the request and the stored one
\* as they are, sends no recommendation, and ends the request only as
\* not-found, when the attempts are used up; and a request ends in nothing but
\* success, not-found, quota-exceeded or internal error.
C28_InternalControlFlow ==
    /\ [](reqs[1].outcome \in {"none", "ok", "notfound", "quota", "error"})
    /\ [][LET q == reqs[1]
              q2 == reqs'[1]
          IN (\/ \E reply \in Replies :
                    reply.kind \in {"unparsable", "missing"} /\ Generate(1, reply)
              \/ \E t \in 0..MaxTick : Resolve(1, NoMovie, t)) =>
                /\ q2.attempts = q.attempts + 1
                /\ q2.doc = q.doc /\ db' = db
                /\ q2.resp = q.resp /\ q2.resp.movie = NoMovie
                /\ \/ q2.pc = "generate" /\ q2.outcome = "none"
                   \/ /\ q2.pc = "done" /\ q2.outcome = "notfound"
                      /\ q2.attempts = MaxAttempts(q.route, q.alt)]_vars

\* a first attempt that got a valid reply whose title resolved to nothing
C28_Witness ==
    LET q == reqs[1]
    IN /\ q.route = "cur" /\ q.pc = "generate"
       /\ q.attempts = 1 /\ q.calls = 1
       /\ q.reason \in Reasons
       /\ q.start.hist = <<>> /\ q.doc = q.start /\ db = q.start

\* C29: the steps of a request follow one another in order; the user document
\* of the request is written only in the step that has a valid reply, a resolved
\* movie and found it absent from the history, and then gets that movie and one
\* more on the count; the stored document changes only in a save that succeeds;
\* and the response is set only in that step, to a movie that is then stored.
C29_Sequential ==
    /\ [](reqs[1].resp.movie # NoMovie =>
             /\ reqs[1].pc = "done" /\ reqs[1].outcome = "ok"
             /\ reqs[1].resp.movie \in HistIds(db.hist))
    /\ [][LET q == reqs[1]
              q2 == reqs'[1]
          IN /\ q2.pc # q.pc =>
                   <<q.pc, q2.pc>> \in {<<"idle", "generate">>, <<"idle", "done">>,
                                        <<"generate", "resolve">>, <<"generate", "done">>,
                                        <<"resolve", "save">>, <<"resolve", "generate">>,
                                        <<"resolve", "done">>, <<"save", "done">>,
                                        <<"save", "generate">>}
             /\ (q.pc # "idle" /\ q2.doc # q.doc) =>
                   /\ q.pc = "resolve" /\ q2.pc = "save"
                   /\ q.reason \in Reasons
                   /\ q2.cand \in Movies /\ q2.cand \notin HistIds(q.doc.hist)
                   /\ HistIds(q2.doc.hist) \subseteq HistIds(q.doc.hist) \cup {q2.cand}
                   /\ q2.doc.count = q.doc.count + 1
             /\ db' # db =>
                   /\ q.pc = "save" /\ q2.pc = "done" /\ q2.outcome = "ok"
                   /\ db'.hist = q.doc.hist /\ db'.count = q.doc.count
             /\ q2.resp # q.resp =>
                   /\ q.pc = "save" /\ q2.pc = "done"
                   /\ q2.resp.movie = q.cand
                   /\ q.cand \in HistIds(db'.hist)]_vars

C29_Witness ==
    LET q == reqs[1]
    IN /\ q.route = "cur" /\ q.pc = "done" /\ q.outcome = "ok"
       /\ q.attempts = 1 /\ ~q.saveFailed
       /\ q.resp.movie \in HistIds(db.hist)
       /\ q.resp.movie \notin HistIds(q.start.hist)
       /\ db.count = q.start.count + 1

\* C30: the list a user receives from GET /popular holds no movie that this
\* user had rated when the request was made.
C30_NeverRated ==
    (lastCall.op = "popular" /\ lastCall.status = 200) =>
        lastCall.list \cap lastCall.ratedIds = {}

\* C31: a step in which the call of the generative provider fails adds one to
\* the attempt counter and leaves the request in its loop, or ends it as
\* not-found when that was the last attempt; it never ends the request with
\* the internal-error outcome.
C31_ProviderFailureIsFailedAttempt ==
    [][LET q == reqs[1]
           q2 == reqs'[1]
       IN (\E reply \in Replies : reply.kind = "error" /\ Generate(1, reply)) =>
             /\ q2.attempts = q.attempts + 1
             /\ q2.doc = q.doc /\ db' = db
             /\ \/ q2.pc = "generate" /\ q2.outcome = "none"
                \/ /\ q2.pc = "done" /\ q2.outcome = "notfound"
                   /\ q2.attempts = MaxAttempts(q.route, q.alt)]_vars

\* C32: what GET /users/preferences answers is what is stored for the user at
\* that time.
C32_ReadYourWrites ==
    lastCall.op = "getPreferences" => lastCall.list = lastCall.stored

\* C33: right after invalidateSearchCache(query) no key of that query, for any
\* page, is stored any more.
C33_SearchEntriesGone ==
    lastCall.op = "invalidateSearchCache" =>
        \A page \in Pages : SearchKey(lastCall.query, page) \notin searchKeys

\* C34: no movieId occurs twice in the history, and a feedback request that
\* went through leaves the history with the same entries in the same order and
\* the flag of its movie set, when the movie was in it, and with exactly one
\* more entry, for its movie, when it was not.
C34_FeedbackKeepsHistoryUnique ==
    /\ [](Unique(udoc.hist))
    /\ [][\A route \in {"cur", "legacy"}, m \in PrefMovies, accepted \in BOOLEAN,
             movieInDb \in FoundMovies :
             Feedback(route, m, accepted, <<>>, movieInDb, 2, now) =>
                LET old == udoc.hist
                    new == udoc'.hist
                    flag == IF accepted THEN "true" ELSE "false"
                IN IF m \in HistIds(old)
                   THEN /\ Len(new) = Len(old)
                        /\ \A i \in DOMAIN old :
                              /\ new[i].movieId = old[i].movieId
                              /\ new[i].ts = old[i].ts
                              /\ new[i].accepted =
                                    IF old[i].movieId = m THEN flag ELSE old[i].accepted
                   ELSE /\ Len(new) = Len(old) + 1
                        /\ SubSeq(new, 1, Len(old)) = old
                        /\ new[Len(new)].movieId = m
                        /\ new[Len(new)].accepted = flag]_vars

\* a genre list that is empty or holds unrecognized numeric ids only
Unrecognized(genres) ==
    \A i \in DOMAIN genres : genres[i].name = "" /\ genres[i].id \notin DOMAIN GenreMap

\* C35 as stated: after addLikedMovie / addDislikedMovie for a movie whose
\* genre list is empty or holds unrecognized ids only, the movie is in
\* neither the liked nor the disliked map.
C35_InNeitherSide ==
    (lastCall.op \in {"like", "dislike"} /\ Unrecognized(lastCall.genres)) =>
        /\ lastCall.id \notin PrefIds(prefs.liked)
        /\ lastCall.id \notin PrefIds(prefs.disliked)

\* C35 amended: such a call removes the movie from every bucket of the
\* opposite side and leaves the own side as it was, so the movie is on its own
\* side afterwards exactly if it was there before.
C35_OppositeClearedOwnUntouched ==
    [][\A m \in PrefMovies, g \in NoGenreLists :
         Unrecognized(g) =>
           /\ UserAddLikedMovie(m, g) =>
                /\ m \notin PrefIds(prefs'.disliked)
                /\ prefs'.liked = prefs.liked
                /\ \A h \in DOMAIN prefs'.disliked :
                      /\ h \in DOMAIN prefs.disliked
                      /\ prefs'.disliked[h] =
                           SelectSeq(prefs.disliked[h], LAMBDA e : e.tmdbId # m)
           /\ UserAddDislikedMovie(m, g) =>
                /\ m \notin PrefIds(prefs'.liked)
                /\ prefs'.disliked = prefs.disliked
                /\ \A h \in DOMAIN prefs'.liked :
                      /\ h \in DOMAIN prefs.liked
                      /\ prefs'.liked[h] =
                           SelectSeq(prefs.liked[h], LAMBDA e : e.tmdbId # m)]_vars

C35_Witness ==
    /\ lastCall.op = "like"
    /\ lastCall.genres = <<GenreId(999)>>
    /\ lastCall.wasOpposite
    /\ lastCall.id \notin PrefIds(prefs.disliked)
    /\ lastCall.id \notin PrefIds(prefs.liked)
    /\ prefs.disliked # EmptySide

\* the names of the model that hold an upper-case letter
HasUpperCase(x) == x \in {"Action", "Drama"}

\* the lowercase name a raw genre stands for, "" for an unrecognized id
ExpectedKey(g) ==
    IF g.name = "Action" THEN "action"
    ELSE IF g.name = "Drama" THEN "drama"
    ELSE IF g.name # "" THEN g.name
    ELSE IF g.id \in DOMAIN GenreMap THEN GenreMap[g.id] ELSE ""

ExpectedKeys(genres) == {ExpectedKey(genres[i]) : i \in DOMAIN genres} \ {""}

\* C36: after any sequence of addLikedMovie / addDislikedMovie calls every key
\* of the liked and disliked maps is a lowercase genre name; a call creates
\* buckets only for the lowercased string genres and the table names of the
\* recognized ids of its movie, none for an unrecognized id.
C36_KeysAreLowercaseNames ==
    /\ [](\A g \in DOMAIN prefs.liked \cup DOMAIN prefs.disliked :
             g # "" /\ ~HasUpperCase(g))
    /\ [][/\ lastCall'.op = "like" =>
              DOMAIN prefs'.liked = DOMAIN prefs.liked \cup ExpectedKeys(lastCall'.genres)
          /\ lastCall'.op = "dislike" =>
              DOMAIN prefs'.disliked
                 = DOMAIN prefs.disliked \cup ExpectedKeys(lastCall'.genres)]_vars

C36_Witness ==
    /\ lastCall.op = "like"
    /\ lastCall.genres = <<GenreStr("Action"), GenreId(28), GenreId(999)>>
    /\ DOMAIN prefs.liked = {"action"}
    /\ "drama" \in DOMAIN prefs.disliked

\* C37: within one request the temperature passed to the provider increases
\* strictly with the attempt number: of two provider calls of the request the
\* later one has the higher temperature.
C37_TemperatureIncreases ==
    \A r \in Requests :
       LET temps == reqs[r].temps
       IN /\ Len(temps) = reqs[r].calls
          /\ \A i, j \in DOMAIN temps : i < j => temps[i] < temps[j]

C37_Witness ==
    /\ reqs[1].route = "legacy"
    /\ Len(reqs[1].temps) = 3
    /\ reqs[1].outcome = "notfound"

\* C38: at every attempt k >= 1 the temperature of an alternative-mode request
\* is strictly higher than the temperature a normal-mode request uses at
\* attempt k.
C38_AlternativeHotter ==
    LET q == reqs[1]
    IN (q.alt /\ q.route = "cur") =>
          \A k \in 1..(Len(q.temps) - 1) :
             q.temps[k + 1] > Temperature([q EXCEPT !.alt = FALSE, !.attempts = k])

\* C39: a feedback request (accepted or rejected, movie in the history or not,
\* metadata resolved or not, saved or failed) leaves the quota count and the
\* period date of the user as they were.
C39_FeedbackKeepsQuota ==
    [][\/ udoc'.count = udoc.count /\ udoc'.date = udoc.date
       \/ ~\E route \in {"cur", "legacy"}, m \in PrefMovies, accepted \in BOOLEAN,
              movieInDb \in FoundMovies, saves \in 0..2 :
              Feedback(route, m, accepted, <<>>, movieInDb, saves, now)]_vars

C39_Witness ==
    /\ udoc.count = DailyLimit
    /\ udoc.date = 0 - 1
    /\ \E i \in DOMAIN udoc.hist : udoc.hist[i].accepted = "true"
    /\ \E i \in DOMAIN udoc.hist : udoc.hist[i].accepted = "false"
    /\ prefs # NoPrefs

====
